---- MODULE Spec2Model ----
(***************************************************************************)
(* Model of well_scheduler_app.py: the POST /optimize-schedule/ handler    *)
(* and optimize_well_schedule, which builds a 0/1 linear program with      *)
(* pulp, solves it and collects the schedule from the solved variables.    *)
(*                                                                         *)
(* The solver (problem.solve(), line 42) is modelled by its contract: when *)
(* the constraint set is satisfiable it leaves status Optimal and some     *)
(* objective-minimal 0/1 point in the variables; when it is not, it leaves *)
(* status Infeasible and unspecified values in the variables.  A variable  *)
(* value that is not exactly 1 is written 0, which is all line 48 can see. *)
(***************************************************************************)
EXTENDS Integers, Sequences, FiniteSets, TLC

VARIABLES
    body_ok,    \* the posted JSON body conforms to WellScheduleRequest
    request,    \* the parsed WellScheduleRequest
    pc,         \* position of the handler
    problem,    \* the pulp.LpProblem under construction
    drill_vars, \* keys (well, t) of the LpVariable dict
    varValue,   \* value of each decision variable after solve()
    status,     \* problem.status
    schedule,   \* the list built by lines 45-49
    outcome,    \* what the caller receives
    exc,        \* the exception that ended the call, if any
    first       \* history: the first call the handler completed, and its result

vars == <<body_ok, request, pc, problem, drill_vars, varValue, status,
          schedule, outcome, exc, first>>

---------------------------------------------------------------------------
(* Bounds of the explored inputs *)

MaxT == 2
MaxRig == 2

\* wells: List[str]; lists with a repeated label are included
WellLists ==
    {<<>>, <<"A">>, <<"B">>, <<"A", "B">>, <<"B", "A">>, <<"A", "A">>, <<"B", "B">>}

Timeframes == -1 .. MaxT
RigLimits == -1 .. MaxRig

\* cost patterns, continued periodically beyond their length
CostPatterns == {<<10, 5>>, <<8, 12>>, <<-3, -3>>, <<0, -4>>}

CostRow(pat, n) == [t \in 1 .. n |-> pat[((t - 1) % Len(pat)) + 1]]

CostRows == {CostRow(pat, n) : pat \in CostPatterns, n \in 0 .. MaxT}

SeqToSet(s) == {s[i] : i \in 1 .. Len(s)}

\* capex: dict, keyed by a subset of the declared wells
CapexTables(ws) ==
    UNION {[D -> CostRows] : D \in SUBSET SeqToSet(ws)}

Request(ws, T, cx, r) ==
    [wells |-> ws, timeframes |-> T, capex |-> cx, rig_limit |-> r]

\* the request of the scheduling scenario: two wells, two timeframes, one rig
Scenario ==
    Request(<<"A", "B">>, 2, ("A" :> <<10, 5>> @@ "B" :> <<8, 12>>), 1)

\* requests that may be interleaved with a repeated request
Others ==
    { Scenario,
      Request(<<"B", "A">>, 2, ("A" :> <<-3, -3>> @@ "B" :> <<-3, -3>>), 1),
      Request(<<"A">>, 1, <<>>, 1) }

\* a body that fails pydantic's type validation carries no usable fields
NoRequest == Request(<<>>, 0, <<>>, 0)

---------------------------------------------------------------------------
(* Helpers *)

RECURSIVE SumOver(_, _)
SumOver(S, f) ==
    IF S = {} THEN 0
    ELSE LET k == CHOOSE x \in S : TRUE IN f[k] + SumOver(S \ {k}, f)

Count(ws, w) == Cardinality({i \in 1 .. Len(ws) : ws[i] = w})

\* a repeated well repeats the constraint name f"Drill_{well}_once" (line 35),
\* which LpProblem refuses with PulpError (overlapping constraint names)
HasDuplicates(ws) == \E i, j \in 1 .. Len(ws) : i < j /\ ws[i] = ws[j]

\* range(1, timeframes + 1)
TimeRange(T) == 1 .. T

---------------------------------------------------------------------------
(* optimize_well_schedule: model construction, lines 25-39 *)

NoProblem == [created |-> FALSE, objective |-> <<>>, constraints |-> <<>>]

\* line 28: one binary variable per (well, t)
DrillKeys(ws, T) == {<<ws[i], t>> : i \in 1 .. Len(ws), t \in TimeRange(T)}

\* line 31 reads capex[well][t-1] for every well and every t, in list order
RowBad(cx, w, T) == w \notin DOMAIN cx \/ Len(cx[w]) < T

CapexLookupFails(ws, T, cx) ==
    T >= 1 /\ \E i \in 1 .. Len(ws) : RowBad(cx, ws[i], T)

FirstBadWell(ws, T, cx) ==
    ws[CHOOSE i \in 1 .. Len(ws) :
          /\ RowBad(cx, ws[i], T)
          /\ \A j \in 1 .. i - 1 : ~RowBad(cx, ws[j], T)]

LookupException(ws, T, cx) ==
    IF FirstBadWell(ws, T, cx) \notin DOMAIN cx THEN "KeyError" ELSE "IndexError"

\* mutant: the objective is never added to the problem
ObjectiveUnset(ws, T, cx) == [k \in DrillKeys(ws, T) |-> 0]

\* line 31: coefficient of drill_vars[well][t] in the objective
Objective(ws, T, cx) ==
    [k \in DrillKeys(ws, T) |-> Count(ws, k[1]) * cx[k[1]][k[2]]]

\* mutant: a well may be drilled twice
WellConstraintTwice(ws, T, i) ==
    [name |-> "Drill_" \o ws[i] \o "_once",
     vars |-> {<<ws[i], t>> : t \in TimeRange(T)},
     rhs  |-> 2]

\* line 35: sum over t of drill_vars[well][t] <= 1
WellConstraint(ws, T, i) ==
    [name |-> "Drill_" \o ws[i] \o "_once",
     vars |-> {<<ws[i], t>> : t \in TimeRange(T)},
     rhs  |-> 1]

\* mutant: strict bound taken as rig_limit + 1
RigConstraintLoose(ws, t, rig) ==
    [name |-> "Rig_Limit_" \o ToString(t),
     vars |-> {<<ws[i], t>> : i \in 1 .. Len(ws)},
     rhs  |-> rig + 1]

\* line 39: sum over wells of drill_vars[well][t] <= rig_limit
RigConstraint(ws, t, rig) ==
    [name |-> "Rig_Limit_" \o ToString(t),
     vars |-> {<<ws[i], t>> : i \in 1 .. Len(ws)},
     rhs  |-> rig]

\* mutant: the rig-limit loop is skipped
ConstraintsNoRig(ws, T, rig) ==
    [i \in 1 .. Len(ws) |-> WellConstraint(ws, T, i)]

\* lines 34-39, in the order they are added
Constraints(ws, T, rig) ==
    [i \in 1 .. Len(ws) |-> WellConstraint(ws, T, i)]
        \o (IF T >= 1 THEN [t \in 1 .. T |-> RigConstraint(ws, t, rig)] ELSE <<>>)

---------------------------------------------------------------------------
(* problem.solve(), line 42 *)

Points(keys) == [keys -> {0, 1}]

Satisfies(x, c) == SumOver(c.vars, x) <= c.rhs

Feasible(prob, keys) ==
    {x \in Points(keys) :
        \A n \in 1 .. Len(prob.constraints) : Satisfies(x, prob.constraints[n])}

\* value of the objective at x
ObjValue(obj, x) == SumOver(DOMAIN obj, [k \in DOMAIN obj |-> obj[k] * x[k]])

\* mutant: LpMaximize
Maximizers(obj, F) ==
    {x \in F : \A y \in F : ObjValue(obj, x) >= ObjValue(obj, y)}

\* LpMinimize, line 25
Minimizers(obj, F) ==
    {x \in F : \A y \in F : ObjValue(obj, x) <= ObjValue(obj, y)}

---------------------------------------------------------------------------
(* Collecting the results, lines 45-49 *)

\* mutant: finish_time without the one-unit duration
EntryNoDuration(w, t) == [well |-> w, start_time |-> t, finish_time |-> t]

\* line 49
Entry(w, t) == [well |-> w, start_time |-> t, finish_time |-> t + 1]

RECURSIVE CollectWell(_, _, _, _)
CollectWell(w, t, T, val) ==
    IF t > T THEN <<>>
    ELSE (IF val[<<w, t>>] = 1 THEN <<Entry(w, t)>> ELSE <<>>)
            \o CollectWell(w, t + 1, T, val)

RECURSIVE Collect(_, _, _, _)
Collect(ws, i, T, val) ==
    IF i > Len(ws) THEN <<>>
    ELSE CollectWell(ws[i], 1, T, val) \o Collect(ws, i + 1, T, val)

\* total capex of a schedule, as the objective values it
RECURSIVE ScheduleCost(_, _)
ScheduleCost(sch, cx) ==
    IF sch = <<>> THEN 0
    ELSE cx[Head(sch).well][Head(sch).start_time] + ScheduleCost(Tail(sch), cx)

---------------------------------------------------------------------------
(* The service *)

NoFirst ==
    [seen |-> FALSE, request |-> NoRequest, returned |-> FALSE,
     schedule |-> <<>>, cost |-> 0]

\* the history records the first completed call only
Record(req, ret, sch, c) ==
    IF first.seen THEN first
    ELSE [seen |-> TRUE, request |-> req, returned |-> ret, schedule |-> sch, cost |-> c]

Init ==
    /\ body_ok = TRUE
    /\ request = NoRequest
    /\ pc = "idle"
    /\ problem = NoProblem
    /\ drill_vars = {}
    /\ varValue = <<>>
    /\ status = "NotSolved"
    /\ schedule = <<>>
    /\ outcome = "none"
    /\ exc = "none"
    /\ first = NoFirst

\* a new call starts with fresh locals
StartCall(ok, req) ==
    /\ body_ok' = ok
    /\ request' = req
    /\ problem' = NoProblem
    /\ drill_vars' = {}
    /\ varValue' = <<>>
    /\ status' = "NotSolved"
    /\ schedule' = <<>>
    /\ exc' = "none"
    /\ UNCHANGED first

\* the handler raised: FastAPI answers 500
Raise(e) ==
    /\ exc' = e
    /\ outcome' = "server_error"
    /\ pc' = "done"
    /\ first' = Record(request, FALSE, <<>>, 0)

\* POST /optimize-schedule/ with a body of the declared types (lines 11-15, 56-57)
Post ==
    /\ pc \in {"idle", "done"}
    /\ ~first.seen
    /\ \E ws \in WellLists, T \in Timeframes, r \in RigLimits :
         \E cx \in CapexTables(ws) :
            StartCall(TRUE, Request(ws, T, cx, r))
    /\ pc' = "build"
    /\ outcome' = "pending"

\* a later POST: the first completed request again, or another one.  The
\* handler keeps nothing between calls; only the history variable first does.
Repost ==
    /\ pc = "done"
    /\ first.seen
    /\ \E req \in {first.request} \cup Others : StartCall(TRUE, req)
    /\ pc' = "build"
    /\ outcome' = "pending"

\* POST with a body that does not parse as WellScheduleRequest: 422, handler not run
PostInvalid ==
    /\ pc \in {"idle", "done"}
    /\ StartCall(FALSE, NoRequest)
    /\ pc' = "done"
    /\ outcome' = "validation_error"

\* lines 25-39
BuildModel ==
    /\ pc = "build"
    /\ LET ws == request.wells
           T == request.timeframes
           cx == request.capex
       IN /\ drill_vars' = DrillKeys(ws, T)
          /\ IF CapexLookupFails(ws, T, cx)
             THEN /\ problem' = [NoProblem EXCEPT !.created = TRUE]
                  /\ Raise(LookupException(ws, T, cx))
             ELSE IF HasDuplicates(ws)
             THEN /\ problem' = [created |-> TRUE,
                                 objective |-> Objective(ws, T, cx),
                                 constraints |-> <<>>]
                  /\ Raise("PulpError")
             ELSE /\ problem' = [created |-> TRUE,
                                 objective |-> Objective(ws, T, cx),
                                 constraints |-> Constraints(ws, T, request.rig_limit)]
                  /\ exc' = "none"
                  /\ outcome' = "pending"
                  /\ pc' = "solve"
                  /\ UNCHANGED first
    /\ UNCHANGED <<body_ok, request, varValue, status, schedule>>

\* line 42
Solve ==
    /\ pc = "solve"
    /\ LET F == Feasible(problem, drill_vars)
       IN IF F # {}
          THEN /\ status' = "Optimal"
               /\ varValue' \in Minimizers(problem.objective, F)
          ELSE /\ status' = "Infeasible"
               /\ varValue' \in Points(drill_vars)
    /\ pc' = "collect"
    /\ UNCHANGED <<body_ok, request, problem, drill_vars, schedule, outcome, exc, first>>

\* lines 45-51 and 58-59: the status is not read
Respond ==
    /\ pc = "collect"
    /\ LET sch == Collect(request.wells, 1, request.timeframes, varValue)
       IN /\ schedule' = sch
          /\ first' = Record(request, TRUE, sch, ScheduleCost(sch, request.capex))
    /\ outcome' = "returned"
    /\ pc' = "done"
    /\ UNCHANGED <<body_ok, request, problem, drill_vars, varValue, status, exc>>

Next == Post \/ Repost \/ PostInvalid \/ BuildModel \/ Solve \/ Respond

Spec == Init /\ [][Next]_vars

---------------------------------------------------------------------------
(* Properties *)

\* a valid request: unique wells, timeframes >= 1, one capex row of length
\* timeframes per well, rig_limit >= 0
Valid(req) ==
    /\ ~HasDuplicates(req.wells)
    /\ req.timeframes >= 1
    /\ DOMAIN req.capex = SeqToSet(req.wells)
    /\ \A w \in DOMAIN req.capex : Len(req.capex[w]) = req.timeframes
    /\ req.rig_limit >= 0

\* the capex table lacks a declared well or has too few costs for one
CapexMalformed(req) ==
    \E w \in SeqToSet(req.wells) :
        w \notin DOMAIN req.capex \/ Len(req.capex[w]) < req.timeframes

Returned == pc = "done" /\ outcome = "returned"

StartsAt(sch, t) == {i \in 1 .. Len(sch) : sch[i].start_time = t}

\* the assignments the contract allows: each well in at most one timeframe
\* (0 = not drilled), at most rig_limit wells per timeframe
Assignments(req) ==
    {a \in [SeqToSet(req.wells) -> 0 .. req.timeframes] :
        \A t \in 1 .. req.timeframes :
            Cardinality({w \in DOMAIN a : a[w] = t}) <= req.rig_limit}

AssignCost(req, a) ==
    SumOver(DOMAIN a, [w \in DOMAIN a |-> IF a[w] = 0 THEN 0 ELSE req.capex[w][a[w]]])

IsMinCost(req, c) ==
    /\ \E a \in Assignments(req) : AssignCost(req, a) = c
    /\ \A a \in Assignments(req) : c <= AssignCost(req, a)

\* C1: for a valid request, no timeframe holds more than rig_limit entries of
\* the returned schedule
C1_RigLimitRespected ==
    (Returned /\ Valid(request)) =>
        \A t \in 1 .. request.timeframes :
            Cardinality(StartsAt(schedule, t)) <= request.rig_limit

\* a returned schedule of a valid request in which the single rig is used in
\* two timeframes
C1_Witness ==
    /\ Returned /\ Valid(request)
    /\ request.rig_limit = 1
    /\ Len(schedule) = 2
    /\ Cardinality(StartsAt(schedule, 1)) = 1

\* C2: for a valid request, no well appears in two entries of the returned
\* schedule
C2_WellAtMostOnce ==
    (Returned /\ Valid(request)) =>
        \A i, j \in 1 .. Len(schedule) :
            i # j => schedule[i].well # schedule[j].well

\* a well that is profitable in both timeframes, with rigs to spare, is
\* scheduled
C2_Witness ==
    /\ Returned /\ Valid(request)
    /\ request.timeframes = 2 /\ request.rig_limit >= 1
    /\ \E i \in 1 .. Len(schedule) :
          LET w == schedule[i].well
          IN request.capex[w][1] < 0 /\ request.capex[w][2] < 0

\* C3: for a valid request, the cost of the returned schedule is the minimum
\* over all assignments with each well in at most one timeframe and at most
\* rig_limit wells per timeframe
C3_CostMinimal ==
    (Returned /\ Valid(request)) =>
        IsMinCost(request, ScheduleCost(schedule, request.capex))

\* a returned optimum of negative cost where the rig limit binds
C3_Witness ==
    /\ Returned /\ Valid(request)
    /\ Len(request.wells) = 2 /\ request.rig_limit = 1
    /\ ScheduleCost(schedule, request.capex) < 0
    /\ Len(schedule) = 2

\* C4: for the scenario request the returned schedule assigns A to timeframe 2
\* and B to timeframe 1, total cost 13
C4_ScenarioSchedule ==
    (Returned /\ request = Scenario) =>
        /\ {schedule[i] : i \in 1 .. Len(schedule)} = {Entry("A", 2), Entry("B", 1)}
        /\ ScheduleCost(schedule, request.capex) = 13

\* C5: a capex table that lacks a well or has too few costs ends in a
\* validation error, before the model is built and without a solve
C5_MalformedCapexRejected ==
    (pc = "done" /\ body_ok /\ CapexMalformed(request)) =>
        /\ outcome = "validation_error"
        /\ ~problem.created
        /\ status = "NotSolved"

\* C6: an infeasible model ends in an error outcome, never in a returned
\* schedule
C6_InfeasibleSurfaced ==
    (pc = "done" /\ status = "Infeasible") => outcome # "returned"

\* C7: with rig_limit = 0 the returned schedule is empty
C7_ZeroRigsEmpty ==
    (Returned /\ request.rig_limit = 0) => schedule = <<>>

\* a profitable well with no rig available
C7_Witness ==
    /\ Returned /\ Valid(request)
    /\ request.rig_limit = 0
    /\ \E w \in DOMAIN request.capex : request.capex[w][1] < 0

\* C8: a request with timeframes <= 0 ends in a validation error before any
\* model is built
C8_NonPositiveTimeframesRejected ==
    (pc = "done" /\ body_ok /\ request.timeframes <= 0) =>
        /\ outcome = "validation_error"
        /\ ~problem.created

\* C9: a valid request that is answered again, whatever was posted in
\* between, gets a schedule of the same total cost as the first time
C9_SameObjective ==
    (Returned /\ first.returned /\ request = first.request /\ Valid(request)) =>
        ScheduleCost(schedule, request.capex) = first.cost

\* the repeated call returned a different schedule than the first
C9_Witness ==
    /\ Returned /\ first.returned /\ request = first.request /\ Valid(request)
    /\ schedule # first.schedule

\* C10: for a valid request every entry has finish_time = start_time + 1, a
\* well of the request and a start_time in 1..timeframes
C10_EntryShape ==
    (Returned /\ Valid(request)) =>
        \A i \in 1 .. Len(schedule) :
            /\ schedule[i].finish_time = schedule[i].start_time + 1
            /\ schedule[i].well \in SeqToSet(request.wells)
            /\ schedule[i].start_time \in 1 .. request.timeframes

\* a valid request with a non-empty returned schedule
C10_Witness ==
    /\ Returned /\ Valid(request)
    /\ Len(schedule) >= 1

====
